---- MODULE Spec2Model ----
(***************************************************************************)
(* Model of the saturate crate (src/lib.rs): the SaturatingFrom rules that *)
(* the macro invocations generate, and the SaturatingInto blanket impl.    *)
(*                                                                         *)
(* Numbers are exact.  A magnitude is a sequence of bits, most significant *)
(* first, without leading zeros (<<>> is zero).  A value is a record       *)
(*   [cls, neg, mag, exp]                                                  *)
(* that stands for (-1)^neg * mag * 2^exp; cls is "bool" or "int" (exp is  *)
(* 0), "fin" (a finite float, mag without trailing zeros), "inf", "nan",   *)
(* or "err"/"panic" for a failed try_from and an unwrap of it.             *)
(***************************************************************************)
EXTENDS Integers, Sequences, FiniteSets, TLC

VARIABLES ptr, src, x, y, ty, vx, vy, path

vars == <<ptr, src, x, y, ty, vx, vy, path>>

(***************************************************************************)
(* The types of the matrix.                                                *)
(***************************************************************************)
FixedUnsigned == {"u8", "u16", "u32", "u64", "u128"}
FixedSigned == {"i8", "i16", "i32", "i64", "i128"}
FixedInts == FixedUnsigned \cup FixedSigned
SizeTypes == {"usize", "isize"}
IntTypes == FixedInts \cup SizeTypes
FloatTypes == {"f32", "f64"}
Types == {"bool"} \cup IntTypes \cup FloatTypes
PointerWidths == {16, 32, 64}

IsSigned(t) == t \in FixedSigned \cup {"isize"}

BITS(t, w) ==
  CASE t \in {"u8", "i8"} -> 8
    [] t \in {"u16", "i16"} -> 16
    [] t \in {"u32", "i32"} -> 32
    [] t \in {"u64", "i64"} -> 64
    [] t \in {"u128", "i128"} -> 128
    [] t \in SizeTypes -> w

(***************************************************************************)
(* Arithmetic on magnitudes.                                               *)
(***************************************************************************)
Zeros(n) == [i \in 1..n |-> 0]
Ones(n) == [i \in 1..n |-> 1]
Pow2(k) == <<1>> \o Zeros(k)

\* the last, and the first, index in lo..hi at which m has the bit b; 0 if
\* there is none (by halving, to keep the evaluation shallow)
RECURSIVE LastIndexIn(_, _, _, _)
LastIndexIn(m, b, lo, hi) ==
  IF lo > hi THEN 0
  ELSE IF lo = hi THEN (IF m[lo] = b THEN lo ELSE 0)
  ELSE LET mid == (lo + hi) \div 2
           r == LastIndexIn(m, b, mid + 1, hi)
       IN IF r # 0 THEN r ELSE LastIndexIn(m, b, lo, mid)

RECURSIVE FirstIndexIn(_, _, _, _)
FirstIndexIn(m, b, lo, hi) ==
  IF lo > hi THEN 0
  ELSE IF lo = hi THEN (IF m[lo] = b THEN lo ELSE 0)
  ELSE LET mid == (lo + hi) \div 2
           l == FirstIndexIn(m, b, lo, mid)
       IN IF l # 0 THEN l ELSE FirstIndexIn(m, b, mid + 1, hi)

LastIndexOf(m, b) == LastIndexIn(m, b, 1, Len(m))
FirstIndexOf(m, b) == FirstIndexIn(m, b, 1, Len(m))

StripLeading(m) ==
  LET k == FirstIndexOf(m, 1)
  IN IF k = 0 THEN <<>> ELSE SubSeq(m, k, Len(m))

\* m + 1
IncMag(m) ==
  LET k == LastIndexOf(m, 0)
  IN IF k = 0 THEN Pow2(Len(m))
     ELSE SubSeq(m, 1, k - 1) \o <<1>> \o Zeros(Len(m) - k)

\* m - 1, for m > 0
DecMag(m) ==
  LET k == LastIndexOf(m, 1)
  IN StripLeading(SubSeq(m, 1, k - 1) \o <<0>> \o Ones(Len(m) - k))

\* two magnitudes of the same length, bit by bit from the most significant
LexCmp(a, b) ==
  LET k == FirstIndexOf([i \in 1..Len(a) |-> IF a[i] = b[i] THEN 0 ELSE 1], 1)
  IN IF k = 0 THEN 0 ELSE IF a[k] < b[k] THEN -1 ELSE 1

\* the value mag * 2^exp against the value mag2 * 2^exp2
ScaledCmp(a, ea, b, eb) ==
  IF a = <<>> \/ b = <<>> THEN (IF a = b THEN 0 ELSE IF a = <<>> THEN -1 ELSE 1)
  ELSE IF Len(a) + ea < Len(b) + eb THEN -1
  ELSE IF Len(a) + ea > Len(b) + eb THEN 1
  ELSE IF ea >= eb THEN LexCmp(a \o Zeros(ea - eb), b)
  ELSE LexCmp(a, b \o Zeros(eb - ea))

(***************************************************************************)
(* Values.                                                                 *)
(***************************************************************************)
IntVal(n, m) == [cls |-> "int", neg |-> n /\ m # <<>>, mag |-> m, exp |-> 0]
BoolVal(b) == [cls |-> "bool", neg |-> FALSE, mag |-> IF b THEN <<1>> ELSE <<>>, exp |-> 0]
Zero == IntVal(FALSE, <<>>)
NaN(n) == [cls |-> "nan", neg |-> n, mag |-> <<>>, exp |-> 0]
Inf(n) == [cls |-> "inf", neg |-> n, mag |-> <<>>, exp |-> 0]
Err == [cls |-> "err", neg |-> FALSE, mag |-> <<>>, exp |-> 0]
Panic == [cls |-> "panic", neg |-> FALSE, mag |-> <<>>, exp |-> 0]

\* a finite float from mag * 2^exp, trailing zeros moved into the exponent
Fin(n, m, e) ==
  LET k == LastIndexOf(m, 1)
  IN IF k = 0 THEN [cls |-> "fin", neg |-> n, mag |-> <<>>, exp |-> 0]
     ELSE [cls |-> "fin", neg |-> n, mag |-> SubSeq(m, 1, k), exp |-> e + Len(m) - k]

IsNum(v) == v.cls \in {"bool", "int", "fin"}

\* the order of the numbers two values stand for (-0.0 = 0.0); -1, 0, 1
NumCmp(a, b) ==
  IF a.mag = <<>> /\ b.mag = <<>> THEN 0
  ELSE IF a.neg /\ a.mag # <<>> /\ ~(b.neg /\ b.mag # <<>>) THEN -1
  ELSE IF b.neg /\ b.mag # <<>> /\ ~(a.neg /\ a.mag # <<>>) THEN 1
  ELSE IF a.neg THEN ScaledCmp(b.mag, b.exp, a.mag, a.exp)
  ELSE ScaledCmp(a.mag, a.exp, b.mag, b.exp)

NumLe(a, b) == NumCmp(a, b) <= 0
NumLt(a, b) == NumCmp(a, b) < 0
NumEq(a, b) == NumCmp(a, b) = 0

\* <T>::MIN and <T>::MAX of an integer type on a target of pointer width w
MinOf(t, w) == IF IsSigned(t) THEN IntVal(TRUE, Pow2(BITS(t, w) - 1)) ELSE Zero
MaxOf(t, w) == IntVal(FALSE, Ones(IF IsSigned(t) THEN BITS(t, w) - 1 ELSE BITS(t, w)))
MinTab == [t \in IntTypes, w \in PointerWidths |-> MinOf(t, w)]
MaxTab == [t \in IntTypes, w \in PointerWidths |-> MaxOf(t, w)]
MIN(t, w) == MinTab[t, w]
MAX(t, w) == MaxTab[t, w]

(***************************************************************************)
(* The primitives of the language and of core that the rules are written   *)
(* with.  An `as` cast is not a function of this crate: it is modelled by  *)
(* what the language defines it to do.                                     *)
(***************************************************************************)
MANTISSA_DIGITS(t) == IF t = "f32" THEN 24 ELSE 53
\* the exponent of the leading bit of <t>::MAX
MAX_EXP(t) == IF t = "f32" THEN 127 ELSE 1023
\* the exponent of the last bit of the smallest subnormal
MIN_LSB(t) == IF t = "f32" THEN -149 ELSE -1074

\* (-1)^n * m * 2^e rounded to the float type t: to nearest, ties to even,
\* to infinity when the rounded magnitude is beyond the finite range
RoundToFloat(n, m, e, t) ==
  IF m = <<>> THEN Fin(n, <<>>, 0)
  ELSE
    LET top == e + Len(m) - 1
        lsb == IF top - MANTISSA_DIGITS(t) + 1 > MIN_LSB(t)
               THEN top - MANTISSA_DIGITS(t) + 1 ELSE MIN_LSB(t)
        keep == Len(m) - (lsb - e)
    IN IF lsb <= e
       THEN (IF top > MAX_EXP(t) THEN Inf(n) ELSE Fin(n, m, e))
       ELSE
         LET kept == IF keep >= 1 THEN SubSeq(m, 1, keep) ELSE <<>>
             guard == IF keep >= 0 THEN m[keep + 1] ELSE 0
             sticky == keep >= 0 /\ \E i \in (keep + 2)..Len(m) : m[i] = 1
             odd == kept # <<>> /\ kept[Len(kept)] = 1
             up == guard = 1 /\ (sticky \/ odd)
             r == IF up THEN IncMag(kept) ELSE kept
         IN IF r # <<>> /\ lsb + Len(r) - 1 > MAX_EXP(t) THEN Inf(n)
            ELSE Fin(n, r, lsb)

\* integer as float
AsIntToFloat(v, d) == RoundToFloat(v.neg, v.mag, 0, d)

\* float as float
AsFloatToFloat(v, d) ==
  IF v.cls = "fin" THEN RoundToFloat(v.neg, v.mag, v.exp, d) ELSE v

\* float as integer: NaN is 0, the rest is truncated toward zero and
\* saturated at the bounds of the integer type
AsFloatToInt(v, d, w) ==
  CASE v.cls = "nan" -> Zero
    [] v.cls = "inf" -> IF v.neg THEN MIN(d, w) ELSE MAX(d, w)
    [] OTHER ->
         IF v.exp + Len(v.mag) > BITS(d, w)
         THEN (IF v.neg THEN MIN(d, w) ELSE MAX(d, w))
         ELSE
           LET t == IF v.exp >= 0 THEN v.mag \o Zeros(v.exp)
                    ELSE IF Len(v.mag) + v.exp <= 0 THEN <<>>
                    ELSE SubSeq(v.mag, 1, Len(v.mag) + v.exp)
               i == IntVal(v.neg, t)
           IN IF NumLt(i, MIN(d, w)) THEN MIN(d, w)
              ELSE IF NumLt(MAX(d, w), i) THEN MAX(d, w)
              ELSE i

\* the low n bits of a magnitude, as a magnitude
LowBits(m, n) ==
  IF Len(m) <= n THEN m ELSE StripLeading(SubSeq(m, Len(m) - n + 1, Len(m)))

\* 2^n - m for 0 < m < 2^n
Complement(m, n) ==
  LET padded == Zeros(n - Len(m)) \o m
      flipped == [i \in 1..n |-> 1 - padded[i]]
  IN StripLeading(LowBits(IncMag(flipped), n))

\* integer as integer: the two's complement bits of the value, cut to the
\* width of the destination and read in its signedness
AsIntToInt(v, d, w) ==
  LET n == BITS(d, w)
      low == LowBits(v.mag, n)
      bits == IF v.neg /\ low # <<>> THEN Complement(low, n) ELSE low
  IN IF IsSigned(d) /\ Len(bits) = n
     THEN IntVal(TRUE, IF LowBits(bits, n - 1) = <<>> THEN Pow2(n - 1)
                       ELSE Complement(LowBits(bits, n - 1), n - 1))
     ELSE IntVal(FALSE, bits)

As(v, s, d, w) ==
  CASE s \in IntTypes /\ d \in IntTypes -> AsIntToInt(v, d, w)
    [] s \in IntTypes /\ d \in FloatTypes -> AsIntToFloat(v, d)
    [] s \in FloatTypes /\ d \in IntTypes -> AsFloatToInt(v, d, w)
    [] s \in FloatTypes /\ d \in FloatTypes -> AsFloatToFloat(v, d)

\* the pairs core implements From for (among the types of the matrix): the
\* conversions that lose nothing on every target
HasFrom(s, d) ==
  \/ s = "bool" /\ d \in IntTypes
  \/ s \in FixedUnsigned /\ d \in FixedInts /\ BITS(s, 0) < BITS(d, 0)
  \/ s \in FixedSigned /\ d \in FixedSigned /\ BITS(s, 0) < BITS(d, 0)
  \/ s \in {"u8"} /\ d \in SizeTypes
  \/ s \in {"i8", "i16"} /\ d = "isize"
  \/ s = "u16" /\ d = "usize"
  \/ s \in {"i8", "u8", "i16", "u16"} /\ d \in FloatTypes
  \/ s \in {"i32", "u32", "f32"} /\ d = "f64"

\* <d>::from(v) for v of type s
From(v, s, d) ==
  CASE ~HasFrom(s, d) -> Err
    [] s = "bool" -> IntVal(FALSE, v.mag)
    [] d \in FloatTypes /\ s \in FloatTypes -> AsFloatToFloat(v, d)
    [] d \in FloatTypes -> AsIntToFloat(v, d)
    [] OTHER -> v

\* <d>::try_from(v) for an integer v
TryFrom(v, d, w) ==
  IF v.cls # "int" THEN v
  ELSE IF NumLe(MIN(d, w), v) /\ NumLe(v, MAX(d, w)) THEN v ELSE Err

\* Result::unwrap
Unwrap(r) == IF r.cls = "err" THEN Panic ELSE r

\* Ord::min and Ord::max of two integers
OrdMin(a, b) ==
  IF a.cls # "int" THEN a ELSE IF b.cls # "int" THEN b
  ELSE IF NumLe(a, b) THEN a ELSE b
OrdMax(a, b) ==
  IF a.cls # "int" THEN a ELSE IF b.cls # "int" THEN b
  ELSE IF NumLe(b, a) THEN a ELSE b

\* value > 0 for an integer, value > 0.0 for a float (false for NaN)
GtZero(v) == v.cls \in {"int", "fin"} /\ ~v.neg /\ v.mag # <<>>
FloatGtZero(v) == IF v.cls = "nan" THEN FALSE
                  ELSE IF v.cls = "inf" THEN ~v.neg
                  ELSE ~v.neg /\ v.mag # <<>>

(***************************************************************************)
(* The macro invocations: each one is <<sources, destination>>.            *)
(***************************************************************************)
impl_self_types ==
  <<"bool", "i8", "u8", "i16", "u16", "i32", "u32", "i64", "u64", "i128", "u128",
    "isize", "usize", "f64", "f32">>

impl_from_invocations ==
  << <<<<"bool">>, "u8">>,
     <<<<"bool", "u8">>, "u16">>,
     <<<<"bool", "u8", "u16">>, "u32">>,
     <<<<"bool", "u8", "u16", "u32">>, "u64">>,
     <<<<"bool", "u8", "u16", "u32", "u64">>, "u128">>,
     <<<<"bool">>, "i8">>,
     <<<<"bool", "i8", "u8">>, "i16">>,
     <<<<"bool", "i8", "u8", "i16", "u16">>, "i32">>,
     <<<<"bool", "i8", "u8", "i16", "u16", "i32", "u32">>, "i64">>,
     <<<<"bool", "i8", "u8", "i16", "u16", "i32", "u32", "i64", "u64">>, "i128">>,
     <<<<"i8", "u8", "i16", "u16">>, "f32">>,
     <<<<"i8", "u8", "i16", "u16", "i32", "u32", "f32">>, "f64">> >>

impl_clamp_invocations ==
  << <<<<"i16", "u16", "i32", "u32", "i64", "u64", "i128", "u128">>, "u8">>,
     <<<<"i32", "u32", "i64", "u64", "i128", "u128">>, "u16">>,
     <<<<"i64", "u64", "i128", "u128">>, "u32">>,
     <<<<"i128", "u128">>, "u64">>,
     <<<<"i16", "i32", "i64", "i128">>, "i8">>,
     <<<<"i32", "i64", "i128">>, "i16">>,
     <<<<"i64", "i128">>, "i32">>,
     <<<<"i128">>, "i64">> >>

impl_clamp_unsigned_invocations ==
  << <<<<"u8", "u16", "u32", "u64", "u128">>, "i8">>,
     <<<<"u16", "u32", "u64", "u128">>, "i16">>,
     <<<<"u32", "u64", "u128">>, "i32">>,
     <<<<"u64", "u128">>, "i64">>,
     <<<<"u128">>, "i128">>,
     <<<<"usize">>, "isize">> >>

\* impl_clamp_signed!([i8, i16] => u16) written without i16
impl_clamp_signed_invocations_short ==
  << <<<<"i8">>, "u8">>,
     <<<<"i8">>, "u16">>,
     <<<<"i8", "i16", "i32">>, "u32">>,
     <<<<"i8", "i16", "i32", "i64">>, "u64">>,
     <<<<"i8", "i16", "i32", "i64", "i128">>, "u128">>,
     <<<<"isize">>, "usize">> >>

impl_clamp_signed_invocations ==
  << <<<<"i8">>, "u8">>,
     <<<<"i8", "i16">>, "u16">>,
     <<<<"i8", "i16", "i32">>, "u32">>,
     <<<<"i8", "i16", "i32", "i64">>, "u64">>,
     <<<<"i8", "i16", "i32", "i64", "i128">>, "u128">>,
     <<<<"isize">>, "usize">> >>

impl_gt_zero_invocations ==
  << <<<<"i8", "u8", "i16", "u16", "i32", "u32", "i64", "u64", "i128", "u128",
         "isize", "usize">>, "bool">> >>

impl_gt_zero_float_invocations == << <<<<"f32", "f64">>, "bool">> >>

impl_as_invocations ==
  << <<<<"i32", "u32", "i64", "u64", "i128", "u128">>, "f32">>,
     <<<<"i64", "u64", "i128", "u128">>, "f64">>,
     <<<<"f64">>, "f32">>,
     <<<<"f32", "f64">>, "u8">>,
     <<<<"f32", "f64">>, "u16">>,
     <<<<"f32", "f64">>, "u32">>,
     <<<<"f32", "f64">>, "u64">>,
     <<<<"f32", "f64">>, "u128">>,
     <<<<"f32", "f64">>, "i8">>,
     <<<<"f32", "f64">>, "i16">>,
     <<<<"f32", "f64">>, "i32">>,
     <<<<"f32", "f64">>, "i64">>,
     <<<<"f32", "f64">>, "i128">> >>

impl_bool_float_types == <<"f32", "f64">>

\* mod size for one pointer width: ie and ue are the fixed-width types that
\* isize and usize are cast to.  The first arm of impl_equivalent
\* ([src as equ, ..] => dst) is <<sources, equivalents, destination>>, the
\* second ([src, ..] => dst as equ) is <<sources, destination, equivalent>>.
SizeSourceDsts ==
  <<"i8", "i16", "i32", "i64", "i128", "u8", "u16", "u32", "u64", "u128", "f32", "f64">>
SizeDestSrcs ==
  <<"bool", "i8", "u8", "i16", "u16", "i32", "u32", "i64", "u64", "i128", "u128",
    "f32", "f64">>

impl_equivalent_src_invocations(ie, ue) ==
  [i \in 1..Len(SizeSourceDsts) |-> <<<<"isize", "usize">>, <<ie, ue>>, SizeSourceDsts[i]>>]

impl_equivalent_dst_invocations(ie, ue) ==
  << <<SizeDestSrcs, "usize", ue>>, <<SizeDestSrcs, "isize", ie>> >>

\* the fixed-width types of the mod size that target_pointer_width selects
SizeSigned(w) == CASE w = 16 -> "i16" [] w = 32 -> "i32" [] w = 64 -> "i64"
\* the 64-bit mod size left with the types of the 32-bit one
SizeUnsigned_copied(w) == CASE w = 16 -> "u16" [] w = 32 -> "u32" [] w = 64 -> "u32"

SizeUnsigned(w) == CASE w = 16 -> "u16" [] w = 32 -> "u32" [] w = 64 -> "u64"

(***************************************************************************)
(* The impls the invocations expand to, as <<source, destination>> pairs.  *)
(***************************************************************************)
Range(f) == {f[i] : i \in DOMAIN f}

\* the two arms of impl_equivalent as plain <<sources, destination>>
EquivalentSrcPlain(w) ==
  LET invs == impl_equivalent_src_invocations(SizeSigned(w), SizeUnsigned(w))
  IN [i \in DOMAIN invs |-> <<invs[i][1], invs[i][3]>>]
EquivalentDstPlain(w) ==
  LET invs == impl_equivalent_dst_invocations(SizeSigned(w), SizeUnsigned(w))
  IN [i \in DOMAIN invs |-> <<invs[i][1], invs[i][2]>>]

Expand(invs) ==
  UNION {{<<invs[i][1][j], invs[i][2]>> : j \in DOMAIN invs[i][1]} : i \in DOMAIN invs}

ImplSelfPairs == {<<t, t>> : t \in Range(impl_self_types)}
ImplFromPairs == Expand(impl_from_invocations)
ImplClampPairs == Expand(impl_clamp_invocations)
ImplClampUnsignedPairs == Expand(impl_clamp_unsigned_invocations)
ImplClampSignedPairs == Expand(impl_clamp_signed_invocations)
ImplGtZeroPairs == Expand(impl_gt_zero_invocations)
ImplGtZeroFloatPairs == Expand(impl_gt_zero_float_invocations)
ImplAsPairs == Expand(impl_as_invocations)
ImplBoolFloatPairs == {<<"bool", t>> : t \in Range(impl_bool_float_types)}
ImplEquivalentSrcPairs == [w \in PointerWidths |-> Expand(EquivalentSrcPlain(w))]
ImplEquivalentDstPairs == [w \in PointerWidths |-> Expand(EquivalentDstPlain(w))]

\* how many impls of SaturatingFrom<s> for d a list of invocations expands to
Count(invs, s, d) ==
  Cardinality({ij \in (DOMAIN invs) \X (1..Cardinality(Types)) :
                 /\ invs[ij[1]][2] = d
                 /\ ij[2] \in DOMAIN invs[ij[1]][1]
                 /\ invs[ij[1]][1][ij[2]] = s})

CountIn(types, t) == Cardinality({i \in DOMAIN types : types[i] = t})

\* how many impls of SaturatingFrom<s> for d the crate has on a target of
\* pointer width w
ImplCount(s, d, w) ==
  (IF s = d THEN CountIn(impl_self_types, s) ELSE 0)
  + Count(impl_from_invocations, s, d)
  + Count(impl_clamp_invocations, s, d)
  + Count(impl_clamp_unsigned_invocations, s, d)
  + Count(impl_clamp_signed_invocations, s, d)
  + Count(impl_gt_zero_invocations, s, d)
  + Count(impl_gt_zero_float_invocations, s, d)
  + Count(impl_as_invocations, s, d)
  + (IF s = "bool" THEN CountIn(impl_bool_float_types, d) ELSE 0)
  + Count(EquivalentSrcPlain(w), s, d)
  + Count(EquivalentDstPlain(w), s, d)

(***************************************************************************)
(* The bodies of the macros: value of type s to type d, pointer width w.   *)
(***************************************************************************)
impl_self(value) == value

impl_from(value, s, d) == From(value, s, d)

\* impl_clamp without the lower bound
impl_clamp_no_lower(value, s, d, w) ==
  Unwrap(TryFrom(OrdMin(value, From(MAX(d, w), d, s)), d, w))

\* impl_clamp as a wrapping cast: value as $dst
impl_clamp_wrapping(value, s, d, w) == AsIntToInt(value, d, w)

impl_clamp(value, s, d, w) ==
  Unwrap(TryFrom(OrdMax(OrdMin(value, From(MAX(d, w), d, s)), From(MIN(d, w), d, s)), d, w))

\* impl_clamp_unsigned without the min
impl_clamp_unsigned_unclamped(value, s, d, w) == Unwrap(TryFrom(value, d, w))

impl_clamp_unsigned(value, s, d, w) ==
  Unwrap(TryFrom(OrdMin(value, Unwrap(TryFrom(MAX(d, w), s, w))), d, w))

\* impl_clamp_signed as a wrapping cast: value as $dst
impl_clamp_signed_wrapping(value, s, d, w) == AsIntToInt(value, d, w)

impl_clamp_signed(value, s, d, w) ==
  Unwrap(TryFrom(OrdMax(value, Zero), d, w))

\* impl_gt_zero with value >= 0
impl_gt_zero_ge(value) == BoolVal(~value.neg)

impl_gt_zero(value) == BoolVal(GtZero(value))

\* impl_gt_zero_float with value != 0.0
impl_gt_zero_float_nonzero(value) == BoolVal(value.cls \in {"nan", "inf"} \/ value.mag # <<>>)

impl_gt_zero_float(value) == BoolVal(FloatGtZero(value))

\* f.round(): to the nearest integer, halves away from zero
RoundHalfAway(v) ==
  IF v.cls # "fin" \/ v.exp >= 0 THEN v
  ELSE LET n == Len(v.mag) + v.exp
           whole == IF n >= 1 THEN SubSeq(v.mag, 1, n) ELSE <<>>
           half == n >= 0 /\ v.mag[n + 1] = 1
       IN Fin(v.neg, IF half THEN IncMag(whole) ELSE whole, 0)

\* impl_as with a float rounded before the cast: value.round() as $dst
impl_as_rounding(value, s, d, w) ==
  IF s \in FloatTypes /\ d \in IntTypes THEN As(RoundHalfAway(value), s, d, w)
  ELSE As(value, s, d, w)

\* impl_as saturating at the largest finite float, as the integer rules do
impl_as_finite(value, s, d, w) ==
  LET r == As(value, s, d, w)
  IN IF r.cls = "inf" /\ s \in IntTypes
     THEN Fin(r.neg, Ones(MANTISSA_DIGITS(d)), MAX_EXP(d) + 1 - MANTISSA_DIGITS(d))
     ELSE r

impl_as(value, s, d, w) == As(value, s, d, w)

impl_bool_float(value, d) == From(From(value, "bool", "u8"), "u8", d)

\* the rules between the types that do not go through mod size
DirectSaturatingFrom(value, s, d, w) ==
  CASE <<s, d>> \in ImplSelfPairs -> impl_self(value)
    [] <<s, d>> \in ImplFromPairs -> impl_from(value, s, d)
    [] <<s, d>> \in ImplClampPairs -> impl_clamp(value, s, d, w)
    [] <<s, d>> \in ImplClampUnsignedPairs -> impl_clamp_unsigned(value, s, d, w)
    [] <<s, d>> \in ImplClampSignedPairs -> impl_clamp_signed(value, s, d, w)
    [] <<s, d>> \in ImplGtZeroPairs -> impl_gt_zero(value)
    [] <<s, d>> \in ImplGtZeroFloatPairs -> impl_gt_zero_float(value)
    [] <<s, d>> \in ImplAsPairs -> impl_as(value, s, d, w)
    [] <<s, d>> \in ImplBoolFloatPairs -> impl_bool_float(value, d)

\* the type a size type is cast to in mod size
Equivalent(t, w) == IF t = "isize" THEN SizeSigned(w) ELSE SizeUnsigned(w)

\* first arm: <$dst>::saturating_from(value as $equ)
impl_equivalent_src(value, s, d, w) ==
  LET equ == Equivalent(s, w)
  IN DirectSaturatingFrom(As(value, s, equ, w), equ, d, w)

\* second arm: <$equ>::saturating_from(value) as $dst
impl_equivalent_dst(value, s, d, w) ==
  LET equ == Equivalent(d, w)
      r == DirectSaturatingFrom(value, s, equ, w)
  IN IF r.cls = "panic" THEN r ELSE As(r, equ, d, w)

\* <d as SaturatingFrom<s>>::saturating_from(value)
SaturatingFrom(value, s, d, w) ==
  CASE <<s, d>> \in ImplEquivalentSrcPairs[w] -> impl_equivalent_src(value, s, d, w)
    [] <<s, d>> \in ImplEquivalentDstPairs[w] -> impl_equivalent_dst(value, s, d, w)
    [] OTHER -> DirectSaturatingFrom(value, s, d, w)

\* the blanket impl: value.saturating_into() is T::saturating_from(value)
SaturatingInto(value, s, d, w) == SaturatingFrom(value, s, d, w)

(***************************************************************************)
(* The order of the values: false whenever a NaN is compared.              *)
(***************************************************************************)
Lt(a, b) ==
  CASE a.cls = "nan" \/ b.cls = "nan" -> FALSE
    [] a.cls = "inf" /\ b.cls = "inf" -> a.neg /\ ~b.neg
    [] a.cls = "inf" -> a.neg
    [] b.cls = "inf" -> ~b.neg
    [] OTHER -> NumLt(a, b)

Eq(a, b) ==
  CASE a.cls = "nan" \/ b.cls = "nan" -> FALSE
    [] a.cls = "inf" \/ b.cls = "inf" -> a.cls = b.cls /\ a.neg = b.neg
    [] OTHER -> NumEq(a, b)

Le(a, b) == Lt(a, b) \/ Eq(a, b)

(***************************************************************************)
(* The inputs: the values around every bound of an integer type and around *)
(* the precision and the range of the float types, and the values of the   *)
(* crate's tests.                                                          *)
(***************************************************************************)
\* how far around a bound the inputs go
Delta == 1
\* how many inputs above the first one the second input of a pair may be
MaxGap == 2
\* how many conversions are chained
MaxChain == 2

SuccInt(v) ==
  IF v.neg THEN IntVal(TRUE, DecMag(v.mag)) ELSE IntVal(FALSE, IncMag(v.mag))
PredInt(v) ==
  IF v.neg \/ v.mag = <<>> THEN IntVal(TRUE, IncMag(v.mag)) ELSE IntVal(FALSE, DecMag(v.mag))

RECURSIVE Offset(_, _)
Offset(v, d) ==
  IF d = 0 THEN v
  ELSE IF d > 0 THEN Offset(SuccInt(v), d - 1) ELSE Offset(PredInt(v), d + 1)

RECURSIVE AddMag(_, _)
AddMag(m, d) ==
  IF d = 0 THEN m
  ELSE IF d > 0 THEN AddMag(IncMag(m), d - 1) ELSE AddMag(DecMag(m), d + 1)

\* f32::MAX as an integer, and the least integer that `as f32` takes to infinity
F32MaxInt == IntVal(FALSE, Ones(MANTISSA_DIGITS("f32")) \o Zeros(MAX_EXP("f32") + 1 - MANTISSA_DIGITS("f32")))
F32OverflowInt == IntVal(FALSE, Ones(MANTISSA_DIGITS("f32") + 1) \o Zeros(MAX_EXP("f32") - MANTISSA_DIGITS("f32")))

IntAnchors ==
  {Zero} \cup {MIN(t, 64) : t \in FixedInts} \cup {MAX(t, 64) : t \in FixedInts}
  \cup {IntVal(FALSE, Pow2(MANTISSA_DIGITS(t))) : t \in FloatTypes}
  \cup {IntVal(FALSE, Pow2(MANTISSA_DIGITS("f32") + 1)), F32MaxInt, F32OverflowInt}

\* -26, 60954 and -294865 of the tests
TestInts ==
  { IntVal(TRUE, <<1, 1, 0, 1, 0>>),
    IntVal(FALSE, <<1, 1, 1, 0, 1, 1, 1, 0, 0, 0, 0, 1, 1, 0, 1, 0>>),
    IntVal(TRUE, <<1, 0, 0, 0, 1, 1, 1, 1, 1, 1, 1, 1, 1, 0, 1, 0, 0, 0, 1>>) }

IntCandidates == {Offset(a, d) : a \in IntAnchors, d \in (-Delta)..Delta} \cup TestInts

InRange(v, t, w) == NumLe(MIN(t, w), v) /\ NumLe(v, MAX(t, w))

\* a finite value of the float type t
IsFloatOf(v, t) ==
  /\ v.cls = "fin"
  /\ Len(v.mag) <= MANTISSA_DIGITS(t)
  /\ v.mag # <<>> => (v.exp >= MIN_LSB(t) /\ v.exp + Len(v.mag) - 1 <= MAX_EXP(t))

\* the powers of two at which an integer type ends
BoundExps == {0} \cup {BITS(t, 0) : t \in FixedInts} \cup {BITS(t, 0) - 1 : t \in FixedInts}

FloatMagnitudes(t) ==
  LET P == MANTISSA_DIGITS(t)
  IN {Fin(FALSE, AddMag(Pow2(P - 1), d), k - P + 1) : k \in BoundExps, d \in 0..Delta}
     \cup {Fin(FALSE, AddMag(Ones(P), 1 - d), k - P) : k \in BoundExps, d \in 1..Delta}
     \cup {Fin(FALSE, Ones(P), MAX_EXP(t) - P + 1), Fin(FALSE, <<1>>, MIN_LSB(t)),
           Fin(FALSE, <<1, 1>>, MIN_LSB("f32") - 1)}
     \cup {Fin(FALSE, m, -1) : m \in {<<1>>, <<1, 1>>, <<1, 0, 1>>, <<1, 1, 1>>}}
     \cup { Fin(FALSE, <<1, 0, 0, 1, 0, 1, 1>>, 2),               \* 300.0
            Fin(FALSE, <<1, 1, 1, 0, 1, 0, 0, 1, 1, 1>>, 0),      \* 935.0
            Fin(FALSE, <<1, 0, 1, 0, 1, 1, 0, 1, 0, 1, 1, 1, 1, 0, 0, 0, 1, 1, 1, 0, 1,
                         0, 1, 1, 1, 1, 0, 0, 0, 1, 0, 1, 1, 0, 1, 0, 1, 1, 0, 0, 0, 1,
                         1, 0, 0, 0, 1>>, 20),                     \* 1e20
            Fin(FALSE, <<1, 0, 1, 1, 1, 1, 0, 0, 1, 1, 1, 0, 0, 1, 0, 1, 0, 0, 0, 0, 1,
                         0, 0, 0, 0, 1, 1, 0, 0, 1, 0, 0, 1, 0, 0, 1, 0, 0, 1, 0, 0, 0,
                         0, 1, 0, 0, 0, 1, 0, 0, 0, 1, 1>>, -119), \* 1e-20
            Fin(FALSE, <<>>, 0) }

FloatSamples(t) ==
  {NaN(FALSE), NaN(TRUE), Inf(FALSE), Inf(TRUE)}
  \cup {[v EXCEPT !.neg = n] : v \in {u \in FloatMagnitudes(t) : IsFloatOf(u, t)},
                               n \in BOOLEAN}

Samples(t, w) ==
  CASE t = "bool" -> {BoolVal(FALSE), BoolVal(TRUE)}
    [] t \in IntTypes -> {v \in IntCandidates : InRange(v, t, w)}
    [] t \in FloatTypes -> FloatSamples(t)

SampleTab == [t \in Types, w \in PointerWidths |-> Samples(t, w)]

\* the number of inputs below an input
RankTab ==
  [t \in Types, w \in PointerWidths |->
     [v \in SampleTab[t, w] |-> Cardinality({u \in SampleTab[t, w] : Lt(u, v)})]]

\* the second input of a pair: one of the next MaxGap inputs above the first,
\* or another input that compares equal to it (the zero of the other sign)
PairedWith(v, t, w) ==
  {u \in SampleTab[t, w] :
     /\ u.cls # "nan" /\ v.cls # "nan" /\ u # v
     /\ RankTab[t, w][u] - RankTab[t, w][v] \in 0..MaxGap}

(***************************************************************************)
(* The state: a caller on a target of pointer width ptr holds x and y of   *)
(* type src and converts them; ty is the type and vx, vy the values it     *)
(* holds now, path the destination types of the conversions made.          *)
(***************************************************************************)
\* one value, converted to a type and back
Init ==
  /\ ptr \in PointerWidths
  /\ src \in Types
  /\ x \in SampleTab[src, ptr]
  /\ y = x
  /\ ty = src
  /\ vx = x
  /\ vy = y
  /\ path = <<>>

\* two values of one type, the second above the first, converted once
InitPair ==
  /\ ptr \in PointerWidths
  /\ src \in Types
  /\ x \in SampleTab[src, ptr]
  /\ y \in PairedWith(x, src, ptr)
  /\ ty = src
  /\ vx = x
  /\ vy = y
  /\ path = <<>>

\* one value of a fixed-width integer type, converted along a chain of
\* fixed-width integer types (whose rules do not read the pointer width)
InitChain ==
  /\ ptr = 64
  /\ src \in FixedInts
  /\ x \in {v \in IntAnchors \cup TestInts : InRange(v, src, ptr)}
  /\ y = x
  /\ ty = src
  /\ vx = x
  /\ vy = y
  /\ path = <<>>

\* the conversions the caller makes: one conversion, and for a single value
\* the conversion back to the type it started from
Callable(d) ==
  /\ vx.cls # "panic" /\ vy.cls # "panic"
  /\ \/ Len(path) = 0
     \/ Len(path) = 1 /\ x = y /\ d = src

\* the caller now holds the results a and b of converting vx and vy to d
Convert(d, a, b) ==
  /\ ty' = d
  /\ vx' = a
  /\ vy' = IF vy = vx THEN vx' ELSE b
  /\ path' = Append(path, d)
  /\ UNCHANGED <<ptr, src, x, y>>

ImplSelf ==
  \E d \in Types :
    /\ Callable(d) /\ <<ty, d>> \in ImplSelfPairs
    /\ Convert(d, impl_self(vx), impl_self(vy))

ImplFrom ==
  \E d \in Types :
    /\ Callable(d) /\ <<ty, d>> \in ImplFromPairs
    /\ Convert(d, impl_from(vx, ty, d), impl_from(vy, ty, d))

ImplClamp ==
  \E d \in Types :
    /\ Callable(d) /\ <<ty, d>> \in ImplClampPairs
    /\ Convert(d, impl_clamp(vx, ty, d, ptr), impl_clamp(vy, ty, d, ptr))

ImplClampUnsigned ==
  \E d \in Types :
    /\ Callable(d) /\ <<ty, d>> \in ImplClampUnsignedPairs
    /\ Convert(d, impl_clamp_unsigned(vx, ty, d, ptr), impl_clamp_unsigned(vy, ty, d, ptr))

ImplClampSigned ==
  \E d \in Types :
    /\ Callable(d) /\ <<ty, d>> \in ImplClampSignedPairs
    /\ Convert(d, impl_clamp_signed(vx, ty, d, ptr), impl_clamp_signed(vy, ty, d, ptr))

ImplGtZero ==
  \E d \in Types :
    /\ Callable(d) /\ <<ty, d>> \in ImplGtZeroPairs
    /\ Convert(d, impl_gt_zero(vx), impl_gt_zero(vy))

ImplGtZeroFloat ==
  \E d \in Types :
    /\ Callable(d) /\ <<ty, d>> \in ImplGtZeroFloatPairs
    /\ Convert(d, impl_gt_zero_float(vx), impl_gt_zero_float(vy))

ImplAs ==
  \E d \in Types :
    /\ Callable(d) /\ <<ty, d>> \in ImplAsPairs
    /\ Convert(d, impl_as(vx, ty, d, ptr), impl_as(vy, ty, d, ptr))

ImplBoolFloat ==
  \E d \in Types :
    /\ Callable(d) /\ <<ty, d>> \in ImplBoolFloatPairs
    /\ Convert(d, impl_bool_float(vx, d), impl_bool_float(vy, d))

ImplEquivalentSrc ==
  \E d \in Types :
    /\ Callable(d) /\ <<ty, d>> \in ImplEquivalentSrcPairs[ptr]
    /\ Convert(d, impl_equivalent_src(vx, ty, d, ptr), impl_equivalent_src(vy, ty, d, ptr))

ImplEquivalentDst ==
  \E d \in Types :
    /\ Callable(d) /\ <<ty, d>> \in ImplEquivalentDstPairs[ptr]
    /\ Convert(d, impl_equivalent_dst(vx, ty, d, ptr), impl_equivalent_dst(vy, ty, d, ptr))

\* value.saturating_into(), along a chain of fixed-width integer types
IntoChain ==
  \E d \in FixedInts :
    /\ vx.cls # "panic"
    /\ Len(path) < MaxChain
    /\ Convert(d, SaturatingInto(vx, ty, d, ptr), SaturatingInto(vy, ty, d, ptr))

Next ==
  \/ ImplSelf
  \/ ImplFrom
  \/ ImplClamp
  \/ ImplClampUnsigned
  \/ ImplClampSigned
  \/ ImplGtZero
  \/ ImplGtZeroFloat
  \/ ImplAs
  \/ ImplBoolFloat
  \/ ImplEquivalentSrc
  \/ ImplEquivalentDst

NextChain == IntoChain

Spec == Init /\ [][Next]_vars
SpecPair == InitPair /\ [][Next]_vars
SpecChain == InitChain /\ [][NextChain]_vars

(***************************************************************************)
(* What the claims speak of.                                               *)
(***************************************************************************)
Abs(v) == [v EXCEPT !.neg = FALSE]

\* the type the last conversion started from
Prev == IF Len(path) = 1 THEN src ELSE path[Len(path) - 1]

\* the fixed-width integer type of a signedness and a width
FixedOfWidth(signed, n) ==
  CHOOSE t \in FixedInts : BITS(t, 0) = n /\ (t \in FixedSigned) = signed

\* uW for usize, iW for isize, and every other type itself
WidthEquivalent(t, w) ==
  IF t \in SizeTypes THEN FixedOfWidth(t = "isize", w) ELSE t

\* the number v is exactly a value of the type t
Representable(v, t, w) ==
  CASE t = "bool" -> IsNum(v) /\ (v.mag = <<>> \/ (v.mag = <<1>> /\ v.exp = 0 /\ ~v.neg))
    [] t \in IntTypes ->
         /\ IsNum(v)
         /\ v.mag = <<>> \/ v.exp >= 0
         /\ NumLe(MIN(t, w), v) /\ NumLe(v, MAX(t, w))
    [] t \in FloatTypes ->
         \/ v.cls = "inf"
         \/ IsNum(v) /\ IsFloatOf(Fin(v.neg, v.mag, v.exp), t)

\* the largest finite value of a float type
FloatMax(t) == Fin(FALSE, Ones(MANTISSA_DIGITS(t)), MAX_EXP(t) + 1 - MANTISSA_DIGITS(t))

\* the finite float r of type t is the float nearest to the number v, the
\* even one of two equally near: |v| lies between the midpoints of |r| and
\* its neighbours, and on a midpoint only if the last bit of r is 0
IsNearest(r, v, t) ==
  IF r.mag = <<>> THEN v.mag = <<>>
  ELSE
    LET P == MANTISSA_DIGITS(t)
        top == r.exp + Len(r.mag) - 1
        L == IF top - P + 1 > MIN_LSB(t) THEN top - P + 1 ELSE MIN_LSB(t)
        M == r.mag \o Zeros(r.exp - L)
        even == M[Len(M)] = 0
        up == ScaledCmp(v.mag, v.exp, M \o <<1>>, L - 1)
        low == IF M = Pow2(P - 1) /\ L > MIN_LSB(t)
               THEN ScaledCmp(v.mag, v.exp, DecMag(M \o <<0, 0>>), L - 2)
               ELSE ScaledCmp(v.mag, v.exp, DecMag(M) \o <<1>>, L - 1)
    IN /\ r.neg = v.neg
       /\ up < 0 \/ (up = 0 /\ even)
       /\ low > 0 \/ (low = 0 /\ even)

\* v clamped to [lo, hi]
Clamp(v, lo, hi) == IF NumLt(v, lo) THEN lo ELSE IF NumLt(hi, v) THEN hi ELSE v

\* the greatest MIN and the least MAX of the types of a set
GreatestMin(ts, w) ==
  MIN(CHOOSE t \in ts : \A u \in ts : NumLe(MIN(u, w), MIN(t, w)), w)
LeastMax(ts, w) ==
  MAX(CHOOSE t \in ts : \A u \in ts : NumLe(MAX(t, w), MAX(u, w)), w)

(***************************************************************************)
(* The claims.                                                             *)
(***************************************************************************)

\* C1: between fixed-width integer types, saturating_from gives the clamp of
\* the value to [D::MIN, D::MAX]: the value itself when it is inside the
\* bounds (a bound included), D::MAX above them and D::MIN below them.
C1_IntegerClamp ==
  (Len(path) = 1 /\ src \in FixedInts /\ ty \in FixedInts) =>
    /\ vx.cls = "int"
    /\ (NumLe(MIN(ty, ptr), x) /\ NumLe(x, MAX(ty, ptr))) => vx = x
    /\ NumLt(MAX(ty, ptr), x) => vx = MAX(ty, ptr)
    /\ NumLt(x, MIN(ty, ptr)) => vx = MIN(ty, ptr)

\* -26i16 to u8 is 0
C1_Witness ==
  /\ path = <<"u8">> /\ src = "i16"
  /\ x = IntVal(TRUE, <<1, 1, 0, 1, 0>>)
  /\ vx = Zero

\* C2: no conversion panics: what impl_clamp, impl_clamp_unsigned and
\* impl_clamp_signed hand to <dst>::try_from is inside the bounds of the
\* destination, and the inner try_from of impl_clamp_unsigned succeeds for
\* every pair of its invocations.
C2_NoPanic ==
  /\ vx.cls \notin {"err", "panic"} /\ vy.cls \notin {"err", "panic"}
  /\ (Len(path) >= 1 /\ <<Prev, ty>> \in
        ImplClampPairs \cup ImplClampUnsignedPairs \cup ImplClampSignedPairs) =>
       vx.cls = "int" /\ InRange(vx, ty, ptr)
  /\ \A p \in ImplClampUnsignedPairs : TryFrom(MAX(p[2], ptr), p[1], ptr).cls = "int"

\* 60954u16 to i8: the value is cut to 127 before try_from sees it
C2_Witness ==
  /\ path = <<"i8">> /\ src = "u16"
  /\ x = IntVal(FALSE, <<1, 1, 1, 0, 1, 1, 1, 0, 0, 0, 0, 1, 1, 0, 1, 0>>)
  /\ vx = MAX("i8", ptr)

\* C3: on each pointer width every ordered pair of the 15 types has exactly
\* one impl of SaturatingFrom among the macro invocations.
ExactlyOneImpl == [w \in PointerWidths |-> \A s \in Types, d \in Types : ImplCount(s, d, w) = 1]
C3_ExactlyOneRule ==
  /\ Cardinality(Types) = 15
  /\ ExactlyOneImpl[ptr]

\* a pair that only mod size covers, converted on a 16-bit target
C3_Witness == ptr = 16 /\ src = "usize" /\ path = <<"f32">>

\* C4: a float to an integer type D: NaN gives 0, a value <= D::MIN gives
\* D::MIN, a value >= D::MAX gives D::MAX, and any other value is truncated
\* toward zero.
C4_FloatToInt ==
  (Len(path) = 1 /\ src \in FloatTypes /\ ty \in IntTypes) =>
    CASE x.cls = "nan" -> vx = Zero
      [] Le(x, MIN(ty, ptr)) -> vx = MIN(ty, ptr)
      [] Le(MAX(ty, ptr), x) -> vx = MAX(ty, ptr)
      [] OTHER ->
           /\ vx.cls = "int"
           /\ vx.mag # <<>> => vx.neg = x.neg
           /\ NumLe(Abs(vx), Abs(x))
           /\ NumLt(Abs(x), SuccInt(Abs(vx)))

\* -3.5 to i16 is -3
C4_Witness ==
  /\ path = <<"i16">> /\ src = "f64"
  /\ x = Fin(TRUE, <<1, 1, 1>>, -1)
  /\ vx = IntVal(TRUE, <<1, 1>>)

\* C5: a number to bool is true exactly when it is greater than zero; NaN,
\* zero, the negative values and negative infinity are false.
C5_BoolThreshold ==
  (Len(path) = 1 /\ src # "bool" /\ ty = "bool") =>
    /\ vx.cls = "bool"
    /\ vx = BoolVal(TRUE) <=> (x.cls # "nan" /\ Lt(Zero, x))
    /\ vx = BoolVal(FALSE) <=> (x.cls = "nan" \/ Le(x, Zero))

\* -NaN to bool is false
C5_Witness == path = <<"bool">> /\ src = "f64" /\ x = NaN(TRUE) /\ vx = BoolVal(FALSE)

\* C6 as stated: an integer to a float is rounded to the nearest float, and
\* is infinity whenever its magnitude is above the largest finite value.
C6_InfinityAboveMax ==
  (Len(path) = 1 /\ src \in IntTypes /\ ty \in FloatTypes) =>
    /\ vx.cls = "fin" => IsNearest(vx, x, ty)
    /\ NumLt(FloatMax(ty), Abs(x)) => vx = Inf(x.neg)

\* C6 as amended: an integer to a float is rounded to the nearest float, ties
\* to even, and is infinity exactly when its magnitude is at least the
\* largest finite value plus half the gap to the next power of two (2^128 -
\* 2^103 for f32, above every integer for f64); an integer above f32::MAX
\* and below that gives f32::MAX.  u128::MAX to f32 is infinity.
C6_NearestOrInfinity ==
  (Len(path) = 1 /\ src \in IntTypes /\ ty \in FloatTypes) =>
    /\ vx.cls \in {"fin", "inf"}
    /\ vx.cls = "fin" => IsFloatOf(vx, ty) /\ IsNearest(vx, x, ty)
    /\ vx.cls = "inf" <=> (ty = "f32" /\ NumLe(F32OverflowInt, Abs(x)))
    /\ vx.cls = "inf" => vx.neg = x.neg
    /\ (NumLt(FloatMax(ty), Abs(x)) /\ vx.cls = "fin") => vx = FloatMax(ty)
    /\ (src = "u128" /\ x = MAX("u128", ptr) /\ ty = "f32") => vx = Inf(FALSE)

\* u128::MAX to f32 is infinity
C6_Witness == path = <<"f32">> /\ src = "u128" /\ x = MAX("u128", ptr) /\ vx = Inf(FALSE)

\* C7: a conversion to an integer type from an integer or a float type is
\* monotone: v1 <= v2 gives saturating_from(v1) <= saturating_from(v2).
C7_Monotone ==
  (Len(path) = 1 /\ src \in IntTypes \cup FloatTypes /\ ty \in IntTypes /\ Le(x, y)) =>
    /\ vx.cls = "int" /\ vy.cls = "int"
    /\ NumLe(vx, vy)

\* two floats on the two sides of i8::MIN
C7_Witness ==
  /\ path = <<"i8">> /\ src = "f32"
  /\ Lt(x, MIN("i8", ptr)) /\ Lt(MIN("i8", ptr), y)
  /\ vx = MIN("i8", ptr) /\ Lt(vx, vy)

\* C8: a value that is exactly a value of Dest too comes back unchanged from
\* Source -> Dest -> Source.
C8_RoundTrip ==
  (Len(path) = 2 /\ ty = src /\ Representable(x, path[1], ptr)) =>
    /\ vx.cls = x.cls
    /\ Eq(vx, x)

\* i32::MIN through f32 and back
C8_Witness ==
  /\ path = <<"f32", "i32">> /\ src = "i32"
  /\ x = MIN("i32", ptr) /\ vx = x

\* C9: usize and isize convert as uW and iW do on a target of pointer width
\* W, as a source and as a destination, and the `as` casts of
\* impl_equivalent keep the value.
C9_SizeEquivalence ==
  (Len(path) = 1 /\ (src \in SizeTypes \/ ty \in SizeTypes)) =>
    /\ vx = SaturatingFrom(x, WidthEquivalent(src, ptr), WidthEquivalent(ty, ptr), ptr)
    /\ <<src, ty>> \in ImplEquivalentSrcPairs[ptr] =>
         As(x, src, Equivalent(src, ptr), ptr) = x
    /\ <<src, ty>> \in ImplEquivalentDstPairs[ptr] =>
         vx = DirectSaturatingFrom(x, src, Equivalent(ty, ptr), ptr)

\* usize::MAX to i8 on a 16-bit target
C9_Witness ==
  /\ ptr = 16 /\ path = <<"i8">> /\ src = "usize"
  /\ x = MAX("u16", ptr) /\ vx = MAX("i8", ptr)

\* C10: after a chain of conversions through fixed-width integer types the
\* value is the first value clamped to the intersection of the ranges of the
\* types visited, whatever their order; and S -> M -> D is S -> D when the
\* range of M contains the range of D.
C10_ChainClamp ==
  (Len(path) >= 1 /\ src \in FixedInts /\ Range(path) \subseteq FixedInts) =>
    /\ vx = Clamp(x, GreatestMin(Range(path), ptr), LeastMax(Range(path), ptr))
    /\ (/\ Len(path) = 2
        /\ NumLe(MIN(path[1], ptr), MIN(path[2], ptr))
        /\ NumLe(MAX(path[2], ptr), MAX(path[1], ptr))) =>
         vx = SaturatingFrom(x, src, path[2], ptr)

\* -294865i32 through u16 and then i8
C10_Witness ==
  /\ path = <<"u16", "i8">> /\ src = "i32"
  /\ x = IntVal(TRUE, <<1, 0, 0, 0, 1, 1, 1, 1, 1, 1, 1, 1, 1, 0, 1, 0, 0, 0, 1>>)
  /\ vx = Zero

====
